---- MODULE Spec2Model ----
(***************************************************************************)
(* State-machine model of the DynamicVideoPlayer orchestrator              *)
(* (web/src/components/player/dynamic/DynamicVideoPlayer.tsx).             *)
(*                                                                         *)
(* One action is one task of the single-threaded event loop: a prop        *)
(* change from the parent or an SWR cache update with the render and       *)
(* commit it causes (Render), the passive effects of the last commit       *)
(* (RunEffects), the render a state update has scheduled (ReRender), or a  *)
(* callback of one of the two players.  Callbacks of the players may       *)
(* arrive between a commit and its effects, and between a state update     *)
(* and its render.                                                         *)
(*                                                                         *)
(* DynamicVideoController is a module of its own                           *)
(* (./DynamicVideoController); its three operations are modelled from      *)
(* their documented contract (design document, section 4.1).               *)
(***************************************************************************)
EXTENDS Integers, Sequences, FiniteSets, TLC

\* ------------------------------------------------------------------------
\* Bounds of the model
\* ------------------------------------------------------------------------

\* Number of identity changes (camera prop, config object, media element,
\* preview controller) the environment performs after their first arrival.
MaxChanges == 1

\* ------------------------------------------------------------------------
\* Value domains
\* ------------------------------------------------------------------------

Cameras == {"front", "back"}

RangeA == [start |-> 1000, end |-> 2000]
RangeB == [start |-> 2000, end |-> 3000]
TimeRanges == {RangeA, RangeB}

\* startTimestamp?: number -- the prop is optional; NoTimestamp is undefined.
NoTimestamp == -1
StartTimestamps == {NoTimestamp, 0, 1500}

\* raw player times carried by time-update events
Times == {0, 7}

\* a time-update event: the raw time and whether the caller supplied
\* onTimestampUpdate (raw time 0 is dropped either way)
TimeUpdateInputs ==
    {<<t, cb>> \in Times \X BOOLEAN : t = 0 => cb}

\* useApiHost()
ApiHost == "{base}/"

\* An absent object reference (undefined / null) is identity 0.
Absent == 0

\* The configuration object the "config" SWR key resolves to, by identity:
\* the first is 1, each revalidation that is not deep-equal yields the next.
\* detect.annotation_offset is optional (has_offset = FALSE is undefined).
ConfigTable(id) ==
    IF id % 2 = 1
    THEN [front |-> [width |-> 1920, height |-> 1080,
                     has_offset |-> TRUE, annotation_offset |-> 5000],
          back  |-> [width |-> 2560, height |-> 720,
                     has_offset |-> FALSE, annotation_offset |-> 0]]
    ELSE [front |-> [width |-> 1280, height |-> 960,
                     has_offset |-> TRUE, annotation_offset |-> 0],
          back  |-> [width |-> 2000, height |-> 1000,
                     has_offset |-> TRUE, annotation_offset |-> -2000]]

\* The list the recordings provider returns for a key ([] is a list too).
FetchedRecordings(cam, range) == IF range = RangeA THEN <<1>> ELSE << >>

\* useSWR data that has not resolved (undefined).
Undefined == [resolved |-> FALSE, camera |-> "", range |-> [start |-> 0, end |-> 0],
              list |-> << >>]

NoSource == [host |-> "", camera |-> "", start |-> 0, end |-> 0, file |-> ""]

\* Loads of the full player whose loaded event is pending: the one of the
\* source it currently has, and one of a source that has been superseded.
Loads == {"current", "stale"}

NoController == [id |-> Absent, camera |-> "", player |-> Absent, preview |-> Absent,
                 annotationOffset |-> 0, mode |-> ""]

\* The dependencies an effect has before its first run: none, so they
\* differ from every controller a render can produce and the effect runs
\* after the first commit whatever the values are.
NoDeps == [NoController EXCEPT !.id = -1]

\* One call made by the orchestrator or by the controller during an event.
Call(op, target, arg, flag, list) ==
    [op |-> op, target |-> target, arg |-> arg, flag |-> flag, list |-> list]

\* The event of the last step, with the optional props the parent passed
\* with the render its callback closes over.
Event(kind, time, load) ==
    [kind |-> kind, time |-> time, load |-> load,
     startTimestamp |-> NoTimestamp, hasTimestampUpdate |-> FALSE,
     hasClipEnded |-> FALSE, effects |-> {}]

VARIABLES
    \* props
    camera, timeRange, isScrubbing,
    \* useSWR
    config, recCache,
    \* playerRef.current: the <video> element of the full player
    playerRefCurrent,
    \* useState
    previewController, isLoading, source,
    \* useMemo
    controller, memoDeps,
    \* dependency arrays of the three effects, as of the last render
    readyDeps, scrubDeps, playbackDeps,
    \* what the last render put on screen
    fullVisible, previewVisible, currentSource, grow,
    \* the effects of the last render have not run yet; a state update has
    \* scheduled a render that has not happened yet
    effectsPending, renderPending,
    \* loads the full player has started and not yet reported as loaded
    inflight,
    \* history
    nBuilt, readyLog, playbackSource, event, calls

vars == <<camera, timeRange, isScrubbing,
          config, recCache, playerRefCurrent,
          previewController, isLoading, source, controller, memoDeps,
          readyDeps, scrubDeps, playbackDeps,
          fullVisible, previewVisible, currentSource, grow,
          effectsPending, renderPending, inflight,
          nBuilt, readyLog, playbackSource, event, calls>>

\* ------------------------------------------------------------------------
\* Pure pieces of the component
\* ------------------------------------------------------------------------

\* `${apiHost}vod/${camera}/start/${timeRange.start}/end/${timeRange.end}/master.m3u8`
Locator(cam, range) ==
    [host |-> ApiHost, camera |-> cam, start |-> range.start, end |-> range.end,
     file |-> "master.m3u8"]

\* JavaScript truthiness of an optional number.
Truthy(n) == n # NoTimestamp /\ n # 0

\* (mutant) the configured milliseconds are handed on undivided
AnnotationOffset_Milliseconds(cfg, cam) ==
    LET detect == ConfigTable(cfg)[cam]
    IN  IF detect.has_offset THEN detect.annotation_offset ELSE 0

\* (config.cameras[camera]?.detect?.annotation_offset || 0) / 1000
AnnotationOffset(cfg, cam) ==
    LET detect == ConfigTable(cfg)[cam]
        ms == IF detect.has_offset /\ detect.annotation_offset # 0
              THEN detect.annotation_offset ELSE 0
    IN  IF ms >= 0 THEN ms \div 1000 ELSE -((-ms) \div 1000)

\* data of useSWR([`${camera}/recordings`, recordingParams]): one object per
\* cache key, kept as long as the fetched list is deep-equal.  cache tells,
\* for each time range, whether the fetch of (cam, range) has resolved.
Recordings(cache, cam, range) ==
    IF cache[range]
    THEN [resolved |-> TRUE, camera |-> cam, range |-> range,
          list |-> FetchedRecordings(cam, range)]
    ELSE Undefined

\* ------------------------------------------------------------------------
\* DynamicVideoController (contract of section 4.1)
\* ------------------------------------------------------------------------

\* seekToTimestamp(timestamp, autoplayIntent): in playback mode a seek on the
\* media element to the offset-adjusted timestamp with its autoplay intent,
\* in scrubbing mode a seek of the PreviewController.
seekToTimestamp(ctl, timestamp, play) ==
    IF ctl.mode = "playback"
    THEN << Call("video.seek", ctl.player, timestamp + ctl.annotationOffset, play, << >>) >>
    ELSE << Call("preview.seekToTimestamp", ctl.preview, timestamp, FALSE, << >>) >>

\* getProgress(rawPlayerTime)
getProgress(ctl, time) == time + ctl.annotationOffset

\* newPlayback({recordings})
newPlayback(ctl, list) == << Call("newPlayback", ctl.id, 0, FALSE, list) >>

\* ------------------------------------------------------------------------
\* The component: memo, effects, callbacks, markup
\* ------------------------------------------------------------------------

\* dependency array of the controller memo
MemoDeps(cam, cfg, ref, preview) == <<cam, cfg, ref, preview>>

\* (mutant) the factory does not wait for the preview controller
NewController_IgnoresPreview(id, cam, cfg, ref, preview, scrubbing) ==
    IF cfg = Absent \/ ref = Absent
    THEN NoController
    ELSE [id |-> id, camera |-> cam, player |-> ref, preview |-> preview,
          annotationOffset |-> AnnotationOffset(cfg, cam),
          mode |-> IF scrubbing THEN "scrubbing" ELSE "playback"]

\* factory of the controller memo
NewController(id, cam, cfg, ref, preview, scrubbing) ==
    IF cfg = Absent \/ ref = Absent \/ preview = Absent
    THEN NoController
    ELSE [id |-> id, camera |-> cam, player |-> ref, preview |-> preview,
          annotationOffset |-> AnnotationOffset(cfg, cam),
          mode |-> IF scrubbing THEN "scrubbing" ELSE "playback"]

\* (mutant) a memo without dependencies: the factory runs on every render
UseMemo_EveryRender(old, oldDeps, newDeps, fresh) == fresh

\* useMemo: the factory runs when a dependency differs from the last render's
UseMemo(old, oldDeps, newDeps, fresh) ==
    IF newDeps # oldDeps THEN fresh ELSE old

\* (mutant) the publishing effect has no dependency array
ControllerReadyEffect_EveryRender(ctl, deps) ==
    IF ctl.id # Absent
    THEN << Call("onControllerReady", ctl.id, 0, FALSE, << >>) >>
    ELSE << >>

\* useEffect(..., [controller]): publish the controller
ControllerReadyEffect(ctl, deps) ==
    IF ctl # deps /\ ctl.id # Absent
    THEN << Call("onControllerReady", ctl.id, 0, FALSE, << >>) >>
    ELSE << >>

\* (mutant) the effect makes the loading flag follow isScrubbing
ScrubbingEffect_Follows(scrubbing, deps, loading) ==
    IF scrubbing # deps THEN scrubbing ELSE loading

\* (mutant) the effect never marks the state as loading
ScrubbingEffect_Never(scrubbing, deps, loading) == loading

\* useEffect(..., [isScrubbing]): the loading flag after the effect
ScrubbingEffect(scrubbing, deps, loading) ==
    IF scrubbing # deps /\ scrubbing THEN TRUE ELSE loading

\* (mutant) the effect depends on recordings alone
PlaybackEffectFires_RecordingsOnly(ctl, recs, deps) ==
    /\ recs # deps[2]
    /\ ctl.id # Absent
    /\ recs.resolved

\* (mutant) the effect does not return early while recordings is undefined
PlaybackEffectFires_WithoutRecordings(ctl, recs, deps) ==
    /\ <<ctl, recs>> # deps
    /\ ctl.id # Absent

\* useEffect(..., [controller, recordings]): does the body get past its guard
PlaybackEffectFires(ctl, recs, deps) ==
    /\ <<ctl, recs>> # deps
    /\ ctl.id # Absent
    /\ recs.resolved

\* (mutant) the session is started before autoplay is set, and autoplay is
\* always switched on
PlaybackEffectCalls_AutoplayLate(ctl, recs, ref, scrubbing) ==
    newPlayback(ctl, recs.list)
    \o (IF ref # Absent
        THEN << Call("video.autoplay", ref, 0, TRUE, << >>) >>
        ELSE << >>)

\* body of the playback effect: the calls it makes, in order
PlaybackEffectCalls(ctl, recs, ref, scrubbing) ==
    (IF ref # Absent
     THEN << Call("video.autoplay", ref, 0, ~scrubbing, << >>) >>
     ELSE << >>)
    \o newPlayback(ctl, recs.list)

\* (mutant) the wrapper's className ignores isLoading
FullPlayerVisible_IgnoresLoading(scrubbing, loading) == ~scrubbing

\* className of the wrapper of HlsVideoPlayer: "visible" or "hidden"
FullPlayerVisible(scrubbing, loading) == ~(scrubbing \/ loading)

\* className of PreviewPlayer
PreviewPlayerVisible(scrubbing, loading) == scrubbing \/ loading

\* (mutant) a ratio of exactly 16/9 counts as tall
AspectClass_InclusiveTall(width, height) ==
    IF width > 2 * height THEN ""
    ELSE IF 9 * width <= 16 * height THEN "aspect-tall"
    ELSE "aspect-video"

\* className of both players: the sizing class of the detect frame
AspectClass(width, height) ==
    IF width > 2 * height THEN ""
    ELSE IF 9 * width < 16 * height THEN "aspect-tall"
    ELSE "aspect-video"

\* grow (useMemo on [camera, config])
Grow(cfg, cam) ==
    IF cfg = Absent
    THEN "aspect-video"
    ELSE AspectClass(ConfigTable(cfg)[cam].width, ConfigTable(cfg)[cam].height)

\* (mutant) the playback effect is declared before the publishing effect
EffectOrder_PlaybackFirst(ready, playback) == playback \o ready

\* effects run in the order of their declaration: the publishing effect
\* before the playback effect
EffectOrder(ready, playback) == ready \o playback

\* (mutant) the playing event leaves the loading flag as it is
onPlaying_KeepsLoading(loading) == loading

\* onPlaying={() => setIsLoading(false)}: the loading flag it sets
onPlaying(loading) == FALSE

\* (mutant) clip-ended is forwarded only once a controller exists
forwardClipEnded_NeedsController(ctl, hasCallback) ==
    IF hasCallback /\ ctl.id # Absent
    THEN << Call("onClipEnded", 0, 0, FALSE, << >>) >>
    ELSE << >>

\* onClipEnded={onClipEnded}: the caller's callback, handed on as it is
forwardClipEnded(ctl, hasCallback) ==
    IF hasCallback THEN << Call("onClipEnded", 0, 0, FALSE, << >>) >> ELSE << >>

\* (mutant) the seek is requested without autoplay intent
onPlayerLoaded_NoAutoplay(ctl, startTs) ==
    IF ctl.id = Absent \/ ~Truthy(startTs)
    THEN << >>
    ELSE << Call("seekToTimestamp", ctl.id, startTs, FALSE, << >>) >>
         \o seekToTimestamp(ctl, startTs, FALSE)

\* onPlayerLoaded
onPlayerLoaded(ctl, startTs) ==
    IF ctl.id = Absent \/ ~Truthy(startTs)
    THEN << >>
    ELSE << Call("seekToTimestamp", ctl.id, startTs, TRUE, << >>) >>
         \o seekToTimestamp(ctl, startTs, TRUE)

\* (mutant) raw time 0 is forwarded like any other
onTimeUpdate_ForwardsZero(ctl, hasCallback, time) ==
    IF ctl.id = Absent \/ ~hasCallback
    THEN << >>
    ELSE << Call("onTimestampUpdate", 0, getProgress(ctl, time), FALSE, << >>) >>

\* onTimeUpdate
onTimeUpdate(ctl, hasCallback, time) ==
    IF ctl.id = Absent \/ ~hasCallback \/ time = 0
    THEN << >>
    ELSE << Call("onTimestampUpdate", 0, getProgress(ctl, time), FALSE, << >>) >>

\* HlsVideoPlayer is handed currentSource: a change of it starts a load whose
\* loaded event is pending; the load it supersedes, if unfinished, stays
\* pending as the one stale load.
StartLoad(pending, shown, src) ==
    IF src = shown THEN pending
    ELSE {"current"} \cup (IF "current" \in pending THEN {"stale"} ELSE pending)

\* ------------------------------------------------------------------------
\* One render and the effects it commits
\* ------------------------------------------------------------------------

\* the values an event handler may change before the next render
Env == [camera |-> camera, timeRange |-> timeRange, isScrubbing |-> isScrubbing,
        config |-> config, recCache |-> recCache,
        playerRefCurrent |-> playerRefCurrent,
        previewController |-> previewController,
        inflight |-> inflight]

EnvPrimed(e) ==
    /\ camera' = e.camera
    /\ timeRange' = e.timeRange
    /\ isScrubbing' = e.isScrubbing
    /\ config' = e.config
    /\ recCache' = e.recCache
    /\ playerRefCurrent' = e.playerRefCurrent
    /\ previewController' = e.previewController

\* the effects of a render that have something to do: the publishing effect
\* has a controller to publish, the isScrubbing effect sets the loading flag,
\* or the playback effect gets past its guard
EffectsToRun(ctl, scrubbing, recs) ==
    \/ ControllerReadyEffect(ctl, readyDeps) # << >>
    \/ \E loading \in BOOLEAN : ScrubbingEffect(scrubbing, scrubDeps, loading) # loading
    \/ PlaybackEffectFires(ctl, recs, playbackDeps)

\* A render with the values e and its commit.  The render flushes the
\* effects of the render before it first, so it waits for them.  Effects
\* whose bodies have nothing to do are accounted for in the same step; the
\* others are left pending (RunEffects).
Render(e, ev) ==
    LET deps  == MemoDeps(e.camera, e.config, e.playerRefCurrent, e.previewController)
        fresh == NewController(nBuilt + 1, e.camera, e.config, e.playerRefCurrent,
                               e.previewController, e.isScrubbing)
        ctl   == UseMemo(controller, memoDeps, deps, fresh)
        recs  == Recordings(e.recCache, e.camera, e.timeRange)
        todo  == EffectsToRun(ctl, e.isScrubbing, recs)
    IN  /\ ~effectsPending
        /\ EnvPrimed(e)
        /\ controller' = ctl
        /\ memoDeps' = deps
        /\ nBuilt' = IF ctl.id > nBuilt THEN ctl.id ELSE nBuilt
        /\ fullVisible' = FullPlayerVisible(e.isScrubbing, isLoading)
        /\ previewVisible' = PreviewPlayerVisible(e.isScrubbing, isLoading)
        /\ currentSource' = source
        /\ grow' = Grow(e.config, e.camera)
        /\ inflight' = StartLoad(e.inflight, currentSource, source)
        /\ effectsPending' = todo
        /\ renderPending' = FALSE
        /\ readyDeps' = IF todo THEN readyDeps ELSE ctl
        /\ scrubDeps' = IF todo THEN scrubDeps ELSE e.isScrubbing
        /\ playbackDeps' = IF todo THEN playbackDeps ELSE <<ctl, recs>>
        /\ event' = ev
        /\ calls' = << >>
        /\ UNCHANGED <<isLoading, source, readyLog, playbackSource>>

\* The passive effects of the last render, in declaration order, with the
\* values that render saw; playerRef.current is read when the effect runs.
\* The event records the effects that ran: after the first commit all
\* three, afterwards those whose dependencies had changed.
RunEffects ==
    LET recs  == Recordings(recCache, camera, timeRange)
        ready == ControllerReadyEffect(controller, readyDeps)
        load2 == ScrubbingEffect(isScrubbing, scrubDeps, isLoading)
        fires == PlaybackEffectFires(controller, recs, playbackDeps)
        src   == IF fires THEN Locator(camera, timeRange) ELSE source
        load3 == IF fires THEN TRUE ELSE load2
        ran   == (IF controller # readyDeps THEN {"ready"} ELSE {})
                 \cup (IF isScrubbing # scrubDeps THEN {"isScrubbing"} ELSE {})
                 \cup (IF <<controller, recs>> # playbackDeps THEN {"playback"} ELSE {})
    IN  /\ effectsPending
        /\ readyDeps' = controller
        /\ scrubDeps' = isScrubbing
        /\ playbackDeps' = <<controller, recs>>
        /\ readyLog' = readyLog \o [i \in 1..Len(ready) |-> ready[i].target]
        /\ source' = src
        /\ isLoading' = load3
        /\ playbackSource' = IF fires THEN src ELSE playbackSource
        /\ effectsPending' = FALSE
        /\ renderPending' = (renderPending \/ src # source \/ load3 # isLoading)
        /\ event' = [Event("effects", 0, "") EXCEPT !.effects = ran]
        /\ calls' = EffectOrder(ready,
                     IF fires
                     THEN PlaybackEffectCalls(controller, recs, playerRefCurrent, isScrubbing)
                     ELSE << >>)
        /\ UNCHANGED <<camera, timeRange, isScrubbing, config, recCache,
                       playerRefCurrent, previewController, controller, memoDeps,
                       nBuilt, fullVisible, previewVisible, currentSource, grow,
                       inflight>>

\* An event that renders nothing by itself: a callback of one of the two
\* players, or a write to playerRef.current.  loading is the loading flag
\* and e.previewController the preview controller the callback leaves; a
\* changed state value schedules a render, which is a step of its own.
NoRender(e, ev, cs, loading) ==
    /\ EnvPrimed(e)
    /\ inflight' = e.inflight
    /\ event' = ev
    /\ calls' = cs
    /\ isLoading' = loading
    /\ renderPending' = (\/ renderPending
                          \/ loading # isLoading
                          \/ e.previewController # previewController)
    /\ UNCHANGED <<source, controller, memoDeps, readyDeps, scrubDeps,
                   playbackDeps, fullVisible, previewVisible, currentSource, grow,
                   effectsPending, nBuilt, readyLog, playbackSource>>

\* ------------------------------------------------------------------------
\* Initial state: the first render has been committed, its effects are pending
\* ------------------------------------------------------------------------

Init ==
    /\ camera = "front"
    /\ timeRange = RangeA
    /\ isScrubbing \in BOOLEAN
    /\ config = Absent
    /\ recCache = [r \in TimeRanges |-> FALSE]
    /\ playerRefCurrent = Absent
    /\ previewController = Absent
    /\ isLoading = FALSE
    /\ source = Locator(camera, timeRange)
    /\ controller = NoController
    /\ memoDeps = MemoDeps(camera, config, Absent, Absent)
    /\ readyDeps = NoDeps
    /\ scrubDeps = ~isScrubbing
    /\ playbackDeps = <<NoDeps, Undefined>>
    /\ fullVisible = FullPlayerVisible(isScrubbing, isLoading)
    /\ previewVisible = PreviewPlayerVisible(isScrubbing, isLoading)
    /\ currentSource = source
    /\ grow = Grow(config, camera)
    /\ effectsPending = TRUE
    /\ renderPending = FALSE
    /\ inflight = {"current"}
    /\ nBuilt = 0
    /\ readyLog = << >>
    /\ playbackSource = NoSource
    /\ event = Event("mount", 0, "")
    /\ calls = << >>

\* ------------------------------------------------------------------------
\* Events
\* ------------------------------------------------------------------------

\* identity changes so far
Changes ==
    (IF camera # "front" THEN 1 ELSE 0)
    + (IF config > 1 THEN config - 1 ELSE 0)
    + (IF playerRefCurrent > 1 THEN playerRefCurrent - 1 ELSE 0)
    + (IF previewController > 1 THEN previewController - 1 ELSE 0)

\* useSWR("config") resolves for the first time
ConfigResolves ==
    /\ config = Absent
    /\ Render([Env EXCEPT !.config = 1], Event("config", 0, ""))

\* useSWR("config") revalidates to a configuration that is not deep-equal
ConfigChanges ==
    /\ config # Absent
    /\ Changes < MaxChanges
    /\ Render([Env EXCEPT !.config = @ + 1], Event("configChanged", 0, ""))

\* HlsVideoPlayer attaches its <video> element to videoRef
VideoRefAttached ==
    /\ playerRefCurrent = Absent
    /\ NoRender([Env EXCEPT !.playerRefCurrent = 1],
                Event("videoRef", 0, ""), << >>, isLoading)

\* HlsVideoPlayer replaces its <video> element (a step of SpecReplacing)
VideoRefReplaced ==
    /\ playerRefCurrent # Absent
    /\ Changes < MaxChanges
    /\ NoRender([Env EXCEPT !.playerRefCurrent = @ + 1],
                Event("videoRefChanged", 0, ""), << >>, isLoading)

\* PreviewPlayer's onControllerReady: setPreviewController(previewController).
\* The callback sets the state; the render it schedules, or a render of the
\* parent that comes first, hands the new value to the memo.
PreviewControllerReady ==
    /\ previewController = Absent
    /\ NoRender([Env EXCEPT !.previewController = 1],
                Event("preview", 0, ""), << >>, isLoading)

\* PreviewPlayer publishes another controller
PreviewControllerReplaced ==
    /\ previewController # Absent
    /\ Changes < MaxChanges
    /\ NoRender([Env EXCEPT !.previewController = @ + 1],
                Event("previewChanged", 0, ""), << >>, isLoading)

\* config, the preview controller or the props re-resolve to the values
\* they have, or the parent flips a prop and flips it back within one
\* synchronous batch: at most a render with nothing changed (useSWR keeps the
\* object of deep-equal data, setPreviewController of the same controller and
\* equal props from the parent change no dependency).  While a render is
\* scheduled already it is that render (ReRender).
ReResolve ==
    /\ ~renderPending
    /\ Render(Env, Event("reResolve", 0, ""))

\* The parent passes another camera.  recCache holds the entries of the
\* current camera's keys: the camera never changes back, so the entries of
\* the camera left behind are never read again.
CameraChanges ==
    /\ camera = "front"
    /\ Changes < MaxChanges
    /\ Render([Env EXCEPT !.camera = "back",
                          !.recCache = [r \in TimeRanges |-> FALSE]],
              Event("camera", 0, ""))

\* the parent passes another time range
TimeRangeChanges ==
    \E r \in TimeRanges \ {timeRange} :
        Render([Env EXCEPT !.timeRange = r], Event("timeRange", 0, ""))

\* the parent flips isScrubbing
ScrubbingChanges ==
    Render([Env EXCEPT !.isScrubbing = ~@], Event("isScrubbing", 0, ""))

\* the recordings fetch of the current key resolves
RecordingsResolve ==
    /\ ~recCache[timeRange]
    /\ Render([Env EXCEPT !.recCache = [@ EXCEPT ![timeRange] = TRUE]],
              Event("recordings", 0, ""))

\* HlsVideoPlayer: onPlayerLoaded, for a load it has pending
PlayerLoaded ==
    /\ playerRefCurrent # Absent
    /\ \E load \in inflight, startTimestamp \in StartTimestamps :
         NoRender([Env EXCEPT !.inflight = @ \ {load}],
                  [Event("loaded", 0, load) EXCEPT !.startTimestamp = startTimestamp],
                  onPlayerLoaded(controller, startTimestamp), isLoading)

\* HlsVideoPlayer: onTimeUpdate(time)
PlayerTimeUpdate ==
    /\ playerRefCurrent # Absent
    /\ \E in \in TimeUpdateInputs :
         NoRender(Env,
                  [Event("timeUpdate", in[1], "")
                      EXCEPT !.hasTimestampUpdate = in[2]],
                  onTimeUpdate(controller, in[2], in[1]), isLoading)

\* HlsVideoPlayer: onPlaying={() => setIsLoading(false)}
\* (setting the state it already has schedules no render)
PlayerPlaying ==
    /\ playerRefCurrent # Absent
    /\ NoRender(Env, Event("playing", 0, ""), << >>, onPlaying(isLoading))

\* the render a state update of an effect, of onPlaying or of
\* PreviewPlayer's onControllerReady has scheduled
ReRender ==
    /\ renderPending
    /\ Render(Env, Event("rerender", 0, ""))

\* HlsVideoPlayer: onClipEnded
PlayerClipEnded ==
    /\ playerRefCurrent # Absent
    /\ \E hasClipEnded \in BOOLEAN :
         NoRender(Env,
                  [Event("clipEnded", 0, "") EXCEPT !.hasClipEnded = hasClipEnded],
                  forwardClipEnded(controller, hasClipEnded), isLoading)

Next ==
    \/ ConfigResolves
    \/ ConfigChanges
    \/ VideoRefAttached
    \/ PreviewControllerReady
    \/ PreviewControllerReplaced
    \/ ReResolve
    \/ CameraChanges
    \/ TimeRangeChanges
    \/ ScrubbingChanges
    \/ RecordingsResolve
    \/ PlayerLoaded
    \/ PlayerTimeUpdate
    \/ PlayerPlaying
    \/ PlayerClipEnded
    \/ RunEffects
    \/ ReRender

Spec == Init /\ [][Next]_vars

\* The component with a full player that may replace its <video> element:
\* nothing in the component does, but playerRef.current is a dependency of
\* the controller memo, which decides what a replacement does.
NextReplacing ==
    \/ Next
    \/ VideoRefReplaced

SpecReplacing == Init /\ [][NextReplacing]_vars

\* ------------------------------------------------------------------------
\* Properties
\* ------------------------------------------------------------------------

CallsOf(cs, op) == {i \in 1..Len(cs) : cs[i].op = op}
HasCall(op) == CallsOf(calls, op) # {}
AllPresent == config # Absent /\ playerRefCurrent # Absent /\ previewController # Absent

\* the recordings object the last render saw
RecordingsNow == Recordings(recCache, camera, timeRange)

\* the playback effect has a session to start: a controller and a resolved
\* recording list, one of them new since the effect last ran
SessionDue ==
    /\ controller.id # Absent
    /\ recCache[timeRange]
    /\ <<controller, RecordingsNow>> # playbackDeps

\* C1: the two players are complementary in every state, and whenever no
\* state update awaits its render the full player is visible iff not
\* isScrubbing and not loading, the preview player iff isScrubbing or loading.
C1_Visibility ==
    /\ fullVisible # previewVisible
    /\ ~renderPending
         => /\ fullVisible <=> (~isScrubbing /\ ~isLoading)
            /\ previewVisible <=> (isScrubbing \/ isLoading)

\* the full player shown by the render that followed the playing event of a
\* session
C1_Witness ==
    /\ fullVisible
    /\ event.kind = "rerender"
    /\ playbackSource = source

\* C2 (as stated): once a controller exists, another instance is constructed
\* only when the media element or the preview controller it was built from
\* has changed identity.
C2_RebuildOnlyOnPlayerChange ==
    [][(controller.id # Absent /\ controller' # controller)
         => (controller'.player # controller.player
             \/ controller'.preview # controller.preview)]_vars

\* C2 (amended): once a controller exists, another instance is constructed
\* only by a render that finds the camera, the configuration object, the
\* media element or the preview controller different from the ones of the
\* render that built the current instance; it is then a new instance.
C2_RebuildOnlyOnDepsChange ==
    [][(controller.id # Absent /\ controller' # controller)
         => /\ memoDeps' # memoDeps
            /\ controller'.id = controller.id + 1]_vars

\* a replaced media element alone has rebuilt the controller, in the first
\* render after the replacement
C2_Witness ==
    /\ controller.id = 2
    /\ controller.player = 2
    /\ playerRefCurrent = 2
    /\ nBuilt = 2
    /\ Changes = 1
    /\ effectsPending

\* C3 as stated: over the whole lifetime of the component onControllerReady
\* is called at most once.
C3_ReadyExactlyOnce ==
    Len(readyLog) <= 1

\* C3 (amended): onControllerReady is called once for each controller
\* instance that is constructed, in the order of construction, by the
\* effects of the render that constructed it; renders that find camera,
\* configuration, media element and preview controller as they were add no
\* call, so there are at most 1 + (number of identity changes) calls.
C3_ReadyOncePerConstruction ==
    /\ \A i \in 1..Len(readyLog) : readyLog[i] = i
    /\ Len(readyLog) <= nBuilt
    /\ nBuilt <= Len(readyLog) + 1
    /\ ~effectsPending => Len(readyLog) = nBuilt
    /\ Len(readyLog) <= 1 + Changes

\* one identity change has rebuilt the controller and the effects of that
\* render have published the second instance
C3_Witness ==
    /\ event.kind = "effects"
    /\ "ready" \in event.effects
    /\ Changes = 1
    /\ readyLog = <<1, 2>>
    /\ calls[1] = Call("onControllerReady", 2, 0, FALSE, << >>)

\* C4: while the configuration, the media element or the preview controller
\* is absent no controller has been constructed and onControllerReady has
\* not been called; a step that constructs or publishes one ends with all
\* three present.  The arrival of the media element (a ref write) and of the
\* preview controller (a state update) construct nothing themselves: the
\* controller is constructed by a render, and the arrival of the preview
\* controller schedules one.
C4_JoinOfThree ==
    /\ ~AllPresent => (controller = NoController /\ nBuilt = 0 /\ readyLog = << >>)
    /\ (controller.id # Absent \/ HasCall("onControllerReady")) => AllPresent
    /\ event.kind \in {"videoRef", "preview"}
         => (controller = NoController /\ nBuilt = 0 /\ calls = << >>)
    /\ event.kind = "preview" => renderPending

\* the preview controller has arrived last: the render its state update
\* scheduled completes the join
C4_Witness ==
    /\ event.kind = "rerender"
    /\ controller.id = 1
    /\ controller.preview = previewController
    /\ nBuilt = 1
    /\ readyLog = << >>
    /\ Changes = 0
    /\ effectsPending

\* C5 (as stated): after the time range changed from A to B and newPlayback
\* was called for B, the loaded event of the load that B's session has
\* superseded causes no seek on the controller.
C5_StaleLoadedIsDropped ==
    (/\ event.kind = "loaded"
     /\ event.load = "stale"
     /\ timeRange = RangeB
     /\ playbackSource = Locator(camera, RangeB)
     /\ source = playbackSource)
        => ~HasCall("seekToTimestamp")

\* C6 as stated: every loaded event with a requested start timestamp
\* commands the controller to seek, exactly once.
C6_SeekOnEveryLoaded ==
    (event.kind = "loaded" /\ Truthy(event.startTimestamp))
        => Cardinality(CallsOf(calls, "seekToTimestamp")) = 1

\* C6 (amended): a loaded event that arrives while a controller exists, with
\* a start timestamp other than 0, commands the controller exactly once,
\* seekToTimestamp(startTimestamp, true); the media element is then sought
\* to startTimestamp + offset with autoplay.  A loaded event that arrives
\* before the controller exists, or without a start timestamp, makes no
\* call, and no other event commands a seek: the seek is not made later.
C6_SeekOnLoaded ==
    /\ (event.kind = "loaded" /\ controller.id # Absent /\ Truthy(event.startTimestamp))
         => /\ Cardinality(CallsOf(calls, "seekToTimestamp")) = 1
            /\ \A i \in CallsOf(calls, "seekToTimestamp") :
                 /\ calls[i].target = controller.id
                 /\ calls[i].arg = event.startTimestamp
                 /\ calls[i].flag
            /\ \A i \in CallsOf(calls, "video.seek") :
                 /\ calls[i].arg = event.startTimestamp + controller.annotationOffset
                 /\ calls[i].flag
    /\ (event.kind = "loaded"
           /\ (controller.id = Absent \/ ~Truthy(event.startTimestamp)))
         => calls = << >>
    /\ event.kind # "loaded"
         => /\ ~HasCall("seekToTimestamp")
            /\ ~HasCall("video.seek")
            /\ ~HasCall("preview.seekToTimestamp")

\* offset 5, startTimestamp 1500: the media element is sought to 1505
C6_Witness ==
    /\ event.kind = "loaded"
    /\ event.startTimestamp = 1500
    /\ controller.annotationOffset = 5
    /\ \E i \in CallsOf(calls, "video.seek") : calls[i].arg = 1505 /\ calls[i].flag

\* C7 (as stated): a seek touches the media element only while isScrubbing
\* is false and the PreviewController only while isScrubbing is true.
C7_SeekFollowsLiveMode ==
    /\ HasCall("video.seek") => ~isScrubbing
    /\ HasCall("preview.seekToTimestamp") => isScrubbing

\* C8 (as stated): the render of a changed time range or of a resolved
\* recordings fetch, with a controller, leaves a session to be started by
\* its effects.
C8_SessionOnRangeChange ==
    (event.kind \in {"timeRange", "recordings"} /\ controller.id # Absent)
        => (effectsPending /\ SessionDue)

\* C8 (amended): with a controller, the resolution of the recordings fetch,
\* or a change to a time range whose recordings have resolved, leaves the
\* playback effect due; when it runs it starts a session: source is the
\* locator of (camera, range), loading is true and newPlayback is called
\* once on the controller with the resolved list; while the recordings of
\* the current range have not resolved, newPlayback is not called at all.
C8_SessionOnRecordings ==
    /\ (/\ event.kind \in {"timeRange", "recordings"}
        /\ controller.id # Absent
        /\ recCache[timeRange])
         => effectsPending
    /\ (/\ event.kind = "effects"
        /\ "playback" \in event.effects
        /\ controller.id # Absent
        /\ recCache[timeRange])
         => /\ Cardinality(CallsOf(calls, "newPlayback")) = 1
            /\ \A i \in CallsOf(calls, "newPlayback") :
                 /\ calls[i].target = controller.id
                 /\ calls[i].list = FetchedRecordings(camera, timeRange)
            /\ source = Locator(camera, timeRange)
            /\ isLoading
    /\ ~recCache[timeRange] => ~HasCall("newPlayback")

\* the recordings of a new range have resolved and the effects of that
\* render have started its session
C8_Witness ==
    /\ event.kind = "effects"
    /\ event.effects = {"playback"}
    /\ timeRange = RangeB
    /\ HasCall("newPlayback")
    /\ source = Locator(camera, RangeB)

\* C9 (as stated): a session started again for the camera, time range and
\* recordings of the current one has no visible effect: the source and the
\* loading flag stay, so a full player that is visible is not hidden again.
C9_RestartIsInvisible ==
    [][(/\ CallsOf(calls', "newPlayback") # {}
        /\ playbackSource = Locator(camera, timeRange)
        /\ fullVisible
        /\ ~isLoading)
         => /\ source' = source
            /\ ~isLoading']_vars

\* C10: a time-update event with raw time 0 calls onTimestampUpdate never.
C10_ZeroTimeSuppressed ==
    (event.kind = "timeUpdate" /\ event.time = 0) => ~HasCall("onTimestampUpdate")

\* raw time 0 reported while a controller and the callback exist
C10_Witness ==
    /\ event.kind = "timeUpdate"
    /\ event.time = 0
    /\ event.hasTimestampUpdate
    /\ controller.id # Absent

\* the annotation offset the configuration states for the camera, in
\* milliseconds (0 when it states none)
ConfiguredOffsetMs ==
    LET detect == ConfigTable(config)[camera]
    IN  IF detect.has_offset THEN detect.annotation_offset ELSE 0

\* C11 as stated: every time-update event with raw time t # 0 handed to an
\* orchestrator whose caller supplied onTimestampUpdate results in exactly
\* one onTimestampUpdate call.
C11_EveryTimeUpdate ==
    (event.kind = "timeUpdate" /\ event.time # 0 /\ event.hasTimestampUpdate)
        => Cardinality(CallsOf(calls, "onTimestampUpdate")) = 1

\* C11 (amended): a time-update event with raw time t # 0 that arrives while
\* a controller exists and the caller supplied onTimestampUpdate results in
\* exactly one onTimestampUpdate call, with argument t + o, o being the
\* configured milliseconds divided by 1000 (0 when none is configured);
\* while no controller exists the event results in no call.
C11_ProgressWhenReady ==
    (event.kind = "timeUpdate" /\ event.time # 0 /\ event.hasTimestampUpdate)
        => IF controller.id = Absent
           THEN calls = << >>
           ELSE /\ Len(calls) = 1
                /\ calls[1].op = "onTimestampUpdate"
                /\ calls[1].arg * 1000 = event.time * 1000 + ConfiguredOffsetMs

\* raw time 7 forwarded as 12 by a controller whose camera has an offset of
\* 5000 ms
C11_Witness ==
    /\ event.kind = "timeUpdate"
    /\ event.time = 7
    /\ event.hasTimestampUpdate
    /\ controller.id # Absent
    /\ ConfiguredOffsetMs = 5000
    /\ calls = << Call("onTimestampUpdate", 0, 12, FALSE, << >>) >>

\* C12 as stated, for toggles the orchestrator renders as one batch or one
\* by one: once a render that finds isScrubbing true has left no effect to
\* run and no render to do, the loading flag is true, the preview player is
\* visible and the full player is hidden.
C12_ScrubbingEndsLoading ==
    (/\ event.kind \in {"isScrubbing", "reResolve"}
     /\ isScrubbing
     /\ ~effectsPending /\ ~renderPending)
        => (isLoading /\ previewVisible /\ ~fullVisible)

\* C12 (amended): while isScrubbing is true the preview player is visible
\* and the full player hidden, in every state; a render that finds
\* isScrubbing changed to true leaves the isScrubbing effect due, and when
\* that effect has run the loading flag is true.
C12_ScrubbingEndsOnPreview ==
    /\ isScrubbing => (previewVisible /\ ~fullVisible)
    /\ (event.kind = "isScrubbing" /\ isScrubbing) => effectsPending
    /\ (event.kind = "effects" /\ "isScrubbing" \in event.effects /\ isScrubbing)
         => isLoading

\* isScrubbing has turned true while a session was on screen, and the effect
\* has marked the state as loading
C12_Witness ==
    /\ event.kind = "effects"
    /\ event.effects = {"isScrubbing"}
    /\ isScrubbing
    /\ isLoading
    /\ renderPending
    /\ previewVisible /\ ~fullVisible
    /\ playbackSource # NoSource

\* C13: what arrives while no controller exists is deferred, not lost: the
\* render that constructs the controller leaves its effects due, and when
\* they run with the recording list of the current key resolved, newPlayback
\* is called on the new controller with that list; a loaded or time-update
\* event that arrives while no controller exists makes no call at all.
C13_DeferredUntilController ==
    /\ (controller.id # Absent /\ controller # readyDeps) => effectsPending
    /\ (event.kind = "effects" /\ HasCall("onControllerReady") /\ recCache[timeRange])
          => \E i \in CallsOf(calls, "newPlayback") :
                /\ calls[i].target = controller.id
                /\ calls[i].list = FetchedRecordings(camera, timeRange)
    /\ (event.kind \in {"loaded", "timeUpdate"} /\ controller.id = Absent)
          => calls = << >>

\* the recordings had resolved before the controller was constructed: the
\* effects of the render that constructed it start the session
C13_Witness ==
    /\ event.kind = "effects"
    /\ controller.id = 1
    /\ Len(calls) = 3
    /\ calls[1] = Call("onControllerReady", 1, 0, FALSE, << >>)
    /\ calls[3] = Call("newPlayback", 1, 0, FALSE, <<1>>)

\* C14: every newPlayback call is preceded, in the same effect run, by one
\* assignment of the full player's autoplay attribute, and the value
\* assigned is the negation of isScrubbing as rendered.
C14_AutoplayBeforeSession ==
    \A i \in CallsOf(calls, "newPlayback") :
        /\ i > 1
        /\ calls[i - 1] = Call("video.autoplay", playerRefCurrent, 0, ~isScrubbing, << >>)
        /\ Cardinality(CallsOf(calls, "video.autoplay")) = 1

\* a session started while scrubbing: autoplay was switched off first
C14_Witness ==
    /\ isScrubbing
    /\ Len(calls) >= 2
    /\ calls[Len(calls)].op = "newPlayback"
    /\ calls[Len(calls) - 1] = Call("video.autoplay", playerRefCurrent, 0, FALSE, << >>)

\* C15: a playing event sets loading to false; if the full player is hidden
\* and isScrubbing is false it schedules a render, and the render that finds
\* loading false shows the full player and hides the preview if isScrubbing
\* is false; if isScrubbing is true the full player stays hidden.
C15_PlayingClearsLoading ==
    /\ event.kind = "playing"
         => /\ ~isLoading
            /\ isScrubbing => (~fullVisible /\ previewVisible)
            /\ (~isScrubbing /\ ~fullVisible) => renderPending
    /\ (event.kind = "rerender" /\ ~isLoading)
         => /\ fullVisible <=> ~isScrubbing
            /\ previewVisible <=> isScrubbing

\* a session that was loading has reported playing while not scrubbing: the
\* render that reveals the full player is scheduled
C15_Witness ==
    /\ event.kind = "playing"
    /\ playbackSource # NoSource
    /\ ~isScrubbing
    /\ ~isLoading
    /\ ~fullVisible
    /\ renderPending
    /\ ~effectsPending

\* C16: onControllerReady is called at most once for each controller
\* instance, and only with instances that have been constructed.
C16_ReadyAtMostOncePerInstance ==
    /\ \A i, j \in 1..Len(readyLog) : readyLog[i] = readyLog[j] => i = j
    /\ \A i \in 1..Len(readyLog) : readyLog[i] \in 1..nBuilt
    /\ \A i \in CallsOf(calls, "onControllerReady") :
          calls[i].target = controller.id /\ controller.id # Absent

\* two instances have been constructed and each has been published once
C16_Witness ==
    /\ nBuilt = 2
    /\ readyLog = <<1, 2>>
    /\ event.kind = "reResolve"

\* the detect frame the configuration states for the camera
DetectFrame == ConfigTable(config)[camera]

\* C17: the sizing class handed to both players is a function of the detect
\* frame alone: "" (wide) for width/height > 2, "aspect-tall" for
\* width/height < 16/9, "aspect-video" for every other ratio, exactly 2 and
\* exactly 16/9 included, and "aspect-video" while the configuration is absent.
C17_SizingClass ==
    /\ config = Absent => grow = "aspect-video"
    /\ config # Absent =>
          /\ DetectFrame.width > 2 * DetectFrame.height => grow = ""
          /\ 9 * DetectFrame.width < 16 * DetectFrame.height => grow = "aspect-tall"
          /\ (/\ DetectFrame.width <= 2 * DetectFrame.height
              /\ 9 * DetectFrame.width >= 16 * DetectFrame.height)
                => grow = "aspect-video"
    /\ AspectClass(2000, 1000) = "aspect-video"
    /\ AspectClass(2001, 1000) = ""

\* the camera was changed to one whose detect frame is 2560 x 720: the wide
\* class replaced the standard one
C17_Witness ==
    /\ config # Absent
    /\ camera = "back"
    /\ DetectFrame.width = 2560 /\ DetectFrame.height = 720
    /\ grow = ""

\* C18: onControllerReady for an instance is delivered before the first
\* newPlayback call on it: every newPlayback call is made on an instance
\* that has been published, and a publication made in the same effect run
\* precedes it.
C18_ReadyBeforePlayback ==
    \A i \in CallsOf(calls, "newPlayback") :
        /\ \E k \in 1..Len(readyLog) : readyLog[k] = calls[i].target
        /\ \A j \in CallsOf(calls, "onControllerReady") :
              calls[j].target = calls[i].target => j < i

\* the effects of the render that constructed the controller publish it and
\* then start the session on it
C18_Witness ==
    /\ event.kind = "effects"
    /\ event.effects = {"ready", "playback"}
    /\ Len(calls) = 3
    /\ calls[1] = Call("onControllerReady", controller.id, 0, FALSE, << >>)
    /\ calls[3].op = "newPlayback"
    /\ calls[3].target = controller.id

\* C19 as stated: once isScrubbing has returned to false the loading flag is
\* true and the full player hidden, the preview shown.
C19_LeavingKeepsLoading ==
    (event.kind = "isScrubbing" /\ ~isScrubbing)
        => (isLoading /\ ~fullVisible /\ previewVisible)

\* C19 (amended): loading is set to false by the playing event only: while
\* loading is true every other step, leaving scrubbing included, leaves it
\* true and leaves a hidden full player hidden, the preview shown.
C19_OnlyPlayingClearsLoading ==
    [][(isLoading /\ event'.kind # "playing")
          => /\ isLoading'
             /\ ~fullVisible => (~fullVisible' /\ previewVisible')]_vars

\* isScrubbing has returned to false while the session was still loading:
\* the preview stays on screen
C19_Witness ==
    /\ event.kind = "isScrubbing"
    /\ ~isScrubbing
    /\ playbackSource # NoSource
    /\ isLoading
    /\ ~fullVisible /\ previewVisible

\* C20: loaded, time-update and clip-ended events leave the loading flag,
\* the source locator, the controller and the visibility of both players as
\* they were; a clip-ended event makes exactly one call, onClipEnded (the
\* caller having supplied it), whatever the loading, scrubbing or controller
\* state.
C20_PlayerEventsFrame ==
    [][event'.kind \in {"loaded", "timeUpdate", "clipEnded"}
          => /\ UNCHANGED <<isLoading, source, controller, fullVisible,
                            previewVisible, currentSource>>
             /\ (event'.kind = "clipEnded" /\ event'.hasClipEnded)
                   => calls' = << Call("onClipEnded", 0, 0, FALSE, << >>) >>
             /\ (event'.kind = "clipEnded" /\ ~event'.hasClipEnded)
                   => calls' = << >>]_vars

\* clip-ended forwarded while a session is loading and its effects have not
\* been rendered yet
C20_Witness ==
    /\ event.kind = "clipEnded"
    /\ event.hasClipEnded
    /\ controller.id # Absent
    /\ isLoading
    /\ renderPending
    /\ calls = << Call("onClipEnded", 0, 0, FALSE, << >>) >>

====
